---- MODULE Spec2Model ----
(***************************************************************************)
(* Camoufox browser pool server (server/python-service/server.py).         *)
(*                                                                         *)
(* Three parties act on the state:                                         *)
(*   - the main thread: main(), launch_browser_instance(),                 *)
(*     start_socat_proxy(), cleanup_browsers() and signal_handler(), which *)
(*     Python runs in the main thread between two bytecodes;               *)
(*   - the health thread: HTTPServer.serve_forever() with HealthHandler,   *)
(*     one request at a time;                                              *)
(*   - the operating system: worker (browser) and forwarder (socat)        *)
(*     processes, which write output and exit on their own schedule.       *)
(***************************************************************************)
EXTENDS Integers, Sequences, FiniteSets, TLC

\* Bound of the model: BROWSER_POOL_SIZE is drawn from 1 .. MaxPool.
MaxPool == 2

\* BROWSER_PORT default (server.py:28)
BROWSER_PORT == 8080

Slots == 0 .. (MaxPool - 1)

\* Bound of the model: the number of lines a worker's stdout pipe holds
\* before the worker's next write blocks.
PipeCapacity == 2

\* Python's None where a process handle or a port is expected.
None == -1

----------------------------------------------------------------------------
\* Endpoints: scheme://host[:port][path].  port = 0 stands for "no :port",
\* path = "" for "no slash after the authority"; otherwise path starts
\* with "/".
Endpoint(s, h, p, path) == [scheme |-> s, host |-> h, port |-> p, path |-> path]

\* ws_endpoint = None / info.get('endpoint') of a missing key
NoEndpoint == Endpoint("", "", 0, "")

\* What a worker may print as its connection URI (the first match of
\* wss?://[^\s\x1b]+ on the line).
DynamicEndpoints ==
    { Endpoint("ws", "127.0.0.1", 54321, "/abc"),
      Endpoint("ws", "127.0.0.1", 54323, "") }

\* ADVERTISE_HOST values: "localhost" (default), "example.com",
\* "example.com:9000" (port = 0 stands for "no ':' in ADVERTISE_HOST").
AdvertiseHost(h, p) == [host |-> h, port |-> p]
Localhost == AdvertiseHost("localhost", 0)
AdvertiseHosts ==
    { Localhost, AdvertiseHost("example.com", 0), AdvertiseHost("example.com", 9000) }

\* The texts the endpoint arithmetic is evaluated on: what the pattern of
\* line 277, wss?://[^\s\x1b]+, lets through, with either scheme, with and
\* without a port, with no path, an empty one, an ordinary one and one that
\* contains the text "localhost".
EndpointInputs ==
    { Endpoint(s, h, p, q) : s \in {"ws", "wss"}, h \in {"localhost", "127.0.0.1"},
                             p \in {0, 3001, 54321}, q \in {"", "/", "/s1", "/localhost"} }

----------------------------------------------------------------------------
VARIABLES
    POOL_SIZE,          \* configuration, fixed at start
    ADVERTISE_HOST,     \* configuration, fixed at start
    browser_pool,       \* dict: slot id -> info
    socat_processes,    \* list of forwarder handles
    server_ready,
    shutdown_requested,
    endpoint_file,      \* content of ENDPOINT_FILE, NoEndpoint when absent
    \* main thread
    mpc,                \* position of main() / launch_browser_instance()
    i,                  \* loop variable of main's launch loop
    processes,          \* main's list of launched handles
    process,            \* launch_browser_instance's local handle
    ws_endpoint,        \* launch_browser_instance's local
    socat_proc,         \* launch_browser_instance's local
    scanned,            \* a line without a URI has been read in this launch
    cpc,                \* position inside cleanup_browsers, "idle" if not running
    cstage,             \* which loop of cleanup_browsers runs
    cidx,               \* position in that loop
    in_handler,         \* the running cleanup pass was called by signal_handler
    exit_code,          \* None while the interpreter runs
    \* operating system
    worker,             \* slot -> "none" | "running" | "killed" | "exited"
    worker_term,        \* slot -> terminate() calls on the handle: "never" | "once" | "again"
    forwarder,          \* slot -> "none" | "running" | "killed" | "exited"
    forwarder_term,     \* slot -> terminate() calls on the handle: "never" | "once" | "again"
    stdout_unread,      \* slot -> lines the worker has written that nobody has read
    \* health thread
    hpc,                \* position of the request being handled
    it_used,            \* dict size seen by the running dict iterator, 0 without one
    resp,               \* the response being built / last sent
    \* a single evaluation of the endpoint arithmetic on given arguments
    call                \* the arguments and the result, fn = "none" without one

cfgVars == <<POOL_SIZE, ADVERTISE_HOST>>
sharedVars == <<browser_pool, socat_processes, server_ready, shutdown_requested, endpoint_file>>
launchVars == <<i, processes, process, ws_endpoint, socat_proc, scanned>>
cleanupVars == <<cpc, cstage, cidx, in_handler>>
osVars == <<worker, worker_term, forwarder, forwarder_term, stdout_unread>>
healthVars == <<hpc, it_used, resp>>
vars == <<cfgVars, sharedVars, mpc, launchVars, cleanupVars, exit_code, osVars, healthVars, call>>

----------------------------------------------------------------------------
\* (variant of browser_id that numbers the slots from one)
browser_id_from_one(k) == <<"browser_", k + 1>>

\* (variant of browser_id that gives every slot the id of the first one)
browser_id_same_slot(k) == <<"browser_", 0>>

\* browser_id = f"browser_{i}"
browser_id(k) == <<"browser_", k>>

\* int(browser_id.split('_')[1])
browser_index(id) == id[2]

\* re.search(r':(\d+)/', ws_endpoint): a port followed by a slash
port_match(ws) == ws.port # 0 /\ ws.path # ""

\* (variant of final_endpoint that advertises the fixed port whether or not
\* the forwarder was started)
final_endpoint_always_proxied(proc, ws, proxy_port) ==
    Endpoint("ws", "localhost", proxy_port, ws.path)

\* final_endpoint: f"ws://localhost:{proxy_port}/{path}" with
\* path = ws_endpoint.split('/', 3)[-1] (the text after the third slash, so
\* "/" + path is ws_endpoint's path again), or ws_endpoint itself when socat
\* was not started.
final_endpoint(proc, ws, proxy_port) ==
    IF proc # None
    THEN Endpoint("ws", "localhost", proxy_port, ws.path)
    ELSE ws

\* (variant of pool_entry that stores the status before the endpoint is
\* known)
pool_entry_status_first(ws, proc, handle, id) ==
    [ endpoint          |-> NoEndpoint,
      original_endpoint |-> ws,
      proxy_port        |-> None,
      dynamic_port      |-> None,
      process           |-> handle,
      status            |-> "ready" ]

\* The dict launch_browser_instance stores for a slot (started_at, a
\* timestamp, is left out).  Keys absent from the second form of the dict
\* read as None through info.get().
pool_entry(ws, proc, handle, id) ==
    IF port_match(ws)
    THEN LET proxy_port == BROWSER_PORT + browser_index(id) IN
         [ endpoint          |-> final_endpoint(proc, ws, proxy_port),
           original_endpoint |-> ws,
           proxy_port        |-> IF proc # None THEN proxy_port ELSE None,
           dynamic_port      |-> ws.port,
           process           |-> handle,
           status            |-> "ready" ]
    ELSE [ endpoint          |-> ws,
           original_endpoint |-> NoEndpoint,
           proxy_port        |-> None,
           dynamic_port      |-> None,
           process           |-> handle,
           status            |-> "ready" ]

\* len([b for b in browser_pool.values() if b.get('status') == 'ready'])
NumReady(pool) == Cardinality({id \in DOMAIN pool : pool[id].status = "ready"})

\* A dict iterates in insertion order; main inserts slots in increasing
\* index, so the k-th item is the one with k-1 smaller keys.
PoolItem(pool, k) ==
    CHOOSE id \in DOMAIN pool :
        Cardinality({o \in DOMAIN pool : o[2] < id[2]}) = k - 1

EmptyPool == [id \in {} |-> 0]

\* The response a HealthHandler method is building: the status line it has
\* sent and the JSON body it writes at the end.
NoResponse ==
    [ kind |-> "none", code |-> 0, status |-> "", browsers_available |-> 0,
      browsers_total |-> 0, browsers |-> <<>>, primary_endpoint |-> NoEndpoint ]

\* No evaluation of the endpoint arithmetic is being followed.
NoCall ==
    [ fn |-> "none", endpoint |-> NoEndpoint, slot |-> 0, socat |-> FALSE,
      result |-> NoEndpoint ]

----------------------------------------------------------------------------
\* The state main() starts in, given what ENDPOINT_FILE holds at that
\* moment.
InitFrom(file) ==
    /\ POOL_SIZE \in 1 .. MaxPool
    /\ ADVERTISE_HOST \in AdvertiseHosts
    /\ browser_pool = EmptyPool
    /\ socat_processes = <<>>
    /\ server_ready = FALSE
    /\ shutdown_requested = FALSE
    /\ endpoint_file = file
    /\ mpc = "launch"
    /\ i = 0
    /\ processes = <<>>
    /\ process = None
    /\ ws_endpoint = NoEndpoint
    /\ socat_proc = None
    /\ scanned = FALSE
    /\ cpc = "idle"
    /\ cstage = 1
    /\ cidx = 1
    /\ in_handler = FALSE
    /\ exit_code = None
    /\ worker = [s \in Slots |-> "none"]
    /\ worker_term = [s \in Slots |-> "never"]
    /\ forwarder = [s \in Slots |-> "none"]
    /\ forwarder_term = [s \in Slots |-> "never"]
    /\ hpc = "idle"
    /\ it_used = 0
    /\ resp = NoResponse
    /\ stdout_unread = [s \in Slots |-> 0]

\* A run that finds no endpoint file.
InitProgram == InitFrom(NoEndpoint)

Init == InitProgram /\ call = NoCall

\* The main thread runs main()/launch_browser_instance() code only while no
\* cleanup pass is running and the interpreter has not exited.
MainRuns == cpc = "idle" /\ mpc # "exited"

----------------------------------------------------------------------------
\* launch_browser_instance, lines 251-268: launch_options()/get_nodejs()/
\* Popen raise -> except Exception -> return None.
LaunchError ==
    /\ MainRuns /\ mpc = "launch"
    /\ process' = None
    /\ ws_endpoint' = NoEndpoint
    /\ mpc' = "return"
    /\ UNCHANGED <<cfgVars, call, sharedVars, i, processes, socat_proc, scanned,
                   cleanupVars, exit_code, osVars, healthVars>>

\* lines 257-271: the worker process is started and its stdin written.
StartWorker ==
    /\ MainRuns /\ mpc = "launch"
    /\ worker' = [worker EXCEPT ![i] = "running"]
    /\ process' = i
    /\ ws_endpoint' = NoEndpoint
    /\ socat_proc' = None
    /\ scanned' = FALSE
    /\ mpc' = "discover"
    /\ UNCHANGED <<cfgVars, call, sharedVars, i, processes, cleanupVars, exit_code, worker_term, forwarder, forwarder_term,
                   stdout_unread, healthVars>>

\* lines 257-268 and 330-332: the worker was started but is gone already
\* when its stdin is written; the write raises and None is returned.
StartWorkerBrokenPipe ==
    /\ MainRuns /\ mpc = "launch"
    /\ worker' = [worker EXCEPT ![i] = "exited"]
    /\ process' = None
    /\ ws_endpoint' = NoEndpoint
    /\ mpc' = "return"
    /\ UNCHANGED <<cfgVars, call, sharedVars, i, processes, socat_proc, scanned,
                   cleanupVars, exit_code, worker_term, forwarder,
                   forwarder_term, stdout_unread, healthVars>>

\* (variant of ReadPlainLine with the break of line 326 one level out: the
\* first line read ends the loop)
ReadPlainLine_breaks ==
    /\ MainRuns /\ mpc = "discover"
    /\ worker[i] = "running"
    /\ mpc' = "return"
    /\ UNCHANGED <<cfgVars, call, sharedVars, launchVars, cleanupVars, exit_code,
                   osVars, healthVars>>

\* lines 272-274, 276: a line without a connection URI; the loop goes on.
ReadPlainLine ==
    /\ MainRuns /\ mpc = "discover"
    /\ worker[i] = "running"
    /\ ~scanned
    /\ scanned' = TRUE
    /\ UNCHANGED <<cfgVars, call, sharedVars, mpc, i, processes, process, ws_endpoint,
                   socat_proc, cleanupVars, exit_code, osVars, healthVars>>

\* lines 276-287: the line with the URI; with a port in it the forwarder is
\* tried next, without one the slot is published as it is (line 312).
ReadUriLine ==
    /\ MainRuns /\ mpc = "discover"
    /\ worker[i] = "running"
    /\ \E uri \in DynamicEndpoints :
          /\ ws_endpoint' = uri
          /\ mpc' = IF port_match(uri) THEN "socat" ELSE "publish"
    /\ UNCHANGED <<cfgVars, call, sharedVars, i, processes, process, socat_proc, scanned,
                   cleanupVars, exit_code, osVars, healthVars>>

\* line 272 ends: the stream closed (the worker exited) with no URI seen;
\* line 328 returns the handle.
ReadEOF ==
    /\ MainRuns /\ mpc = "discover"
    /\ worker[i] = "exited"
    /\ mpc' = "return"
    /\ UNCHANGED <<cfgVars, call, sharedVars, launchVars, cleanupVars, exit_code,
                   osVars, healthVars>>

\* start_socat_proxy, lines 169-175 and 179-181: Popen raises, None returned.
SocatFail ==
    /\ MainRuns /\ mpc = "socat"
    /\ socat_proc' = None
    /\ mpc' = "publish"
    /\ UNCHANGED <<cfgVars, call, sharedVars, i, processes, process, ws_endpoint, scanned,
                   cleanupVars, exit_code, osVars, healthVars>>

\* start_socat_proxy, lines 171-176: the forwarder process is started.
SocatStart ==
    /\ MainRuns /\ mpc = "socat"
    /\ forwarder' = [forwarder EXCEPT ![i] = "running"]
    /\ mpc' = "socat_append"
    /\ UNCHANGED <<cfgVars, call, sharedVars, launchVars, cleanupVars, exit_code,
                   worker, worker_term, forwarder_term, stdout_unread, healthVars>>

\* start_socat_proxy, lines 177-178, and line 290.
SocatAppend ==
    /\ MainRuns /\ mpc = "socat_append"
    /\ socat_processes' = Append(socat_processes, i)
    /\ socat_proc' = i
    /\ mpc' = "publish"
    /\ UNCHANGED <<cfgVars, call, browser_pool, server_ready, shutdown_requested, endpoint_file,
                   i, processes, process, ws_endpoint, scanned, cleanupVars,
                   exit_code, osVars, healthVars>>

\* (variant of writes_endpoint_file without the test of line 323)
writes_endpoint_file_always(id) == TRUE

\* line 323: if browser_id == 'browser_0'
writes_endpoint_file(id) == id = browser_id(0)

\* lines 303-311 / 314-319: one dict store of a complete info dict.
Publish ==
    /\ MainRuns /\ mpc = "publish"
    /\ LET id == browser_id(i) IN
         /\ browser_pool' =
                [o \in DOMAIN browser_pool \cup {id} |->
                    IF o = id THEN pool_entry(ws_endpoint, socat_proc, process, id)
                    ELSE browser_pool[o]]
         /\ mpc' = IF writes_endpoint_file(id) THEN "writefile" ELSE "return"
    /\ UNCHANGED <<cfgVars, call, socat_processes, server_ready, shutdown_requested,
                   endpoint_file, launchVars, cleanupVars, exit_code, osVars,
                   healthVars>>

\* lines 323-326
WriteEndpointFile ==
    /\ MainRuns /\ mpc = "writefile"
    /\ endpoint_file' = browser_pool[browser_id(i)].endpoint
    /\ mpc' = "return"
    /\ UNCHANGED <<cfgVars, call, browser_pool, socat_processes, server_ready,
                   shutdown_requested, launchVars, cleanupVars, exit_code,
                   osVars, healthVars>>

\* main, lines 408-415 and the loop header 403: launch_browser_instance
\* returns (its locals are gone), the handle is kept if there is one, then
\* the next slot or the end of the launch pass.
LaunchReturn ==
    /\ MainRuns /\ mpc = "return"
    /\ processes' = IF process # None THEN Append(processes, process) ELSE processes
    /\ i' = i + 1
    /\ mpc' = IF i + 1 < POOL_SIZE THEN "launch" ELSE "check"
    /\ process' = None
    /\ ws_endpoint' = NoEndpoint
    /\ socat_proc' = None
    /\ scanned' = FALSE
    /\ UNCHANGED <<cfgVars, call, sharedVars, cleanupVars, exit_code, osVars,
                   healthVars>>

\* main, lines 417-419
NoneLaunched ==
    /\ MainRuns /\ mpc = "check"
    /\ processes = <<>>
    /\ exit_code' = 1
    /\ mpc' = "exited"
    /\ UNCHANGED <<cfgVars, call, sharedVars, launchVars, cleanupVars, osVars,
                   healthVars>>

\* main, lines 417 and 421
BecomeReady ==
    /\ MainRuns /\ mpc = "check"
    /\ processes # <<>>
    /\ server_ready' = TRUE
    /\ mpc' = "wait"
    /\ UNCHANGED <<cfgVars, call, browser_pool, socat_processes, shutdown_requested,
                   endpoint_file, launchVars, cleanupVars, exit_code, osVars,
                   healthVars>>

\* main, lines 429-435: every process.wait() of the loop has returned (each
\* returns once that worker has exited; the loop changes no state), and
\* finally calls cleanup_browsers(), whose first statement is line 338.
\* main's locals are dead from here on.
WaitDone ==
    /\ MainRuns /\ mpc = "wait"
    /\ \A k \in 1 .. Len(processes) : worker[processes[k]] = "exited"
    /\ mpc' = "finally"
    /\ processes' = <<>>
    /\ shutdown_requested' = TRUE
    /\ cpc' = "loop"
    /\ cstage' = 1
    /\ cidx' = 1
    /\ in_handler' = FALSE
    /\ UNCHANGED <<cfgVars, call, browser_pool, socat_processes, server_ready, endpoint_file,
                   i, process, ws_endpoint, socat_proc, scanned, exit_code,
                   osVars, healthVars>>

----------------------------------------------------------------------------
\* cleanup_browsers, lines 335-367

\* The two loops of cleanup_browsers in the order of the source:
\* lines 343-351 (browser processes), then lines 355-361 (socat proxies).
cleanup_order == <<"workers", "socats">>

StageIsWorkers == cleanup_order[cstage] = "workers"

\* The handles the running loop goes through: info.get('process') of
\* browser_pool.items(), or socat_processes.
CleanupHandles ==
    IF StageIsWorkers
    THEN [k \in 1 .. Cardinality(DOMAIN browser_pool) |->
              browser_pool[PoolItem(browser_pool, k)].process]
    ELSE socat_processes

ProcState(h) == IF StageIsWorkers THEN worker[h] ELSE forwarder[h]

\* process.poll() is None: the process has not been seen to exit.  A process
\* that was sent SIGKILL stays unreaped until it has actually died.
PollIsNone(st) == st \in {"running", "killed"}

\* What a handle has seen of terminate() after one more call.
one_more(calls) == IF calls = "never" THEN "once" ELSE "again"

\* lines 345-347 / 356-357: poll() is None, terminate() is called.
CleanupTerminate ==
    /\ cpc = "loop"
    /\ cidx <= Len(CleanupHandles)
    /\ LET h == CleanupHandles[cidx] IN
         /\ PollIsNone(ProcState(h))
         /\ IF StageIsWorkers
            THEN /\ worker_term' = [worker_term EXCEPT ![h] = one_more(@)]
                 /\ UNCHANGED forwarder_term
            ELSE /\ forwarder_term' = [forwarder_term EXCEPT ![h] = one_more(@)]
                 /\ UNCHANGED worker_term
    /\ cpc' = "wait"
    /\ UNCHANGED <<cfgVars, call, sharedVars, mpc, launchVars, cstage, cidx, in_handler,
                   exit_code, worker, forwarder, stdout_unread, healthVars>>

\* lines 345 / 356: the process has exited already, nothing is done to it.
CleanupSkip ==
    /\ cpc = "loop"
    /\ cidx <= Len(CleanupHandles)
    /\ ~PollIsNone(ProcState(CleanupHandles[cidx]))
    /\ cidx' = cidx + 1
    /\ UNCHANGED <<cfgVars, call, sharedVars, mpc, launchVars, cpc, cstage, in_handler,
                   exit_code, osVars, healthVars>>

\* lines 348-349 / 358-359: wait(timeout) returns, the process has exited.
CleanupWaitExited ==
    /\ cpc = "wait"
    /\ ProcState(CleanupHandles[cidx]) = "exited"
    /\ cpc' = "loop"
    /\ cidx' = cidx + 1
    /\ UNCHANGED <<cfgVars, call, sharedVars, mpc, launchVars, cstage, in_handler, exit_code, osVars, healthVars>>

\* lines 350-351 / 360-361: TimeoutExpired, kill().  kill() only sends
\* SIGKILL; the process dies a moment later.
CleanupKill ==
    /\ cpc = "wait"
    /\ LET h == CleanupHandles[cidx] IN
         /\ ProcState(h) # "exited"
         /\ IF StageIsWorkers
            THEN /\ worker' = [worker EXCEPT ![h] = "killed"]
                 /\ UNCHANGED forwarder
            ELSE /\ forwarder' = [forwarder EXCEPT ![h] = "killed"]
                 /\ UNCHANGED worker
    /\ cpc' = "loop"
    /\ cidx' = cidx + 1
    /\ UNCHANGED <<cfgVars, call, sharedVars, mpc, launchVars, cstage, in_handler, exit_code, worker_term, forwarder_term,
                   stdout_unread, healthVars>>

\* the first loop is over, the second begins (line 354)
CleanupNextLoop ==
    /\ cpc = "loop"
    /\ cidx > Len(CleanupHandles)
    /\ cstage < Len(cleanup_order)
    /\ cstage' = cstage + 1
    /\ cidx' = 1
    /\ UNCHANGED <<cfgVars, call, sharedVars, mpc, launchVars, cpc, in_handler, exit_code, osVars, healthVars>>

\* (variant of unlink that leaves the file where it is)
unlink_skipped(file) == file

\* lines 364-365: ENDPOINT_FILE.unlink() if ENDPOINT_FILE.exists()
unlink(file) == NoEndpoint

\* lines 364-367: the endpoint file is removed if it exists.
CleanupFile ==
    /\ cpc = "loop"
    /\ cidx > Len(CleanupHandles)
    /\ cstage = Len(cleanup_order)
    /\ endpoint_file' = unlink(endpoint_file)
    /\ cpc' = "end"
    /\ UNCHANGED <<cfgVars, call, browser_pool, socat_processes, server_ready,
                   shutdown_requested, mpc, launchVars, cstage, cidx, in_handler, exit_code, osVars, healthVars>>

\* signal_handler, line 373: sys.exit(0) raises SystemExit in the main
\* thread.  The frames the signal interrupted are unwound; main was inside
\* its try block (line 429-431), so its finally clause calls
\* cleanup_browsers() again before the exception goes on.
HandlerExitInTry ==
    /\ cpc = "end" /\ in_handler
    /\ mpc = "wait"
    /\ mpc' = "finally"
    /\ shutdown_requested' = TRUE
    /\ cpc' = "loop"
    /\ cstage' = 1
    /\ cidx' = 1
    /\ in_handler' = FALSE
    /\ UNCHANGED <<cfgVars, call, browser_pool, socat_processes, server_ready, endpoint_file,
                   launchVars, exit_code, osVars, healthVars>>

\* signal_handler, line 373, anywhere else: no finally clause is pending
\* (SystemExit is no Exception, so line 330 does not catch it); the
\* interpreter exits with code 0.
HandlerExit ==
    /\ cpc = "end" /\ in_handler
    /\ mpc # "wait"
    /\ mpc' = "exited"
    /\ exit_code' = 0
    /\ cpc' = "idle"
    /\ UNCHANGED <<cfgVars, call, sharedVars, launchVars, cstage, cidx, in_handler, osVars, healthVars>>

\* (variant of FinallyReturn that reports the end of the pool as a failure)
FinallyReturn_fails ==
    /\ cpc = "end" /\ ~in_handler
    /\ mpc' = "exited"
    /\ exit_code' = 1
    /\ cpc' = "idle"
    /\ UNCHANGED <<cfgVars, call, sharedVars, launchVars, cstage, cidx, in_handler, osVars, healthVars>>

\* main, line 435 returns: main ends (or the pending SystemExit(0) goes
\* on), the interpreter exits with code 0.
FinallyReturn ==
    /\ cpc = "end" /\ ~in_handler
    /\ mpc' = "exited"
    /\ exit_code' = 0
    /\ cpc' = "idle"
    /\ UNCHANGED <<cfgVars, call, sharedVars, launchVars, cstage, cidx, in_handler, osVars, healthVars>>

\* signal_handler, lines 370-372 (registered at lines 392-393): SIGINT or
\* SIGTERM is delivered; the handler runs in the main thread on top of
\* whatever it was doing and calls cleanup_browsers() (line 338 first).
\* The interrupted frames are never resumed, since the handler ends in
\* sys.exit(0): their locals are dead, and all that is left of main's
\* position is whether its try block (lines 429-435) was entered.
Signal ==
    /\ mpc # "exited"
    /\ in_handler' = TRUE
    /\ shutdown_requested' = TRUE
    /\ cpc' = "loop"
    /\ cstage' = 1
    /\ cidx' = 1
    /\ mpc' = IF mpc \in {"wait", "finally"} THEN mpc ELSE "interrupted"
    /\ i' = 0
    /\ processes' = <<>>
    /\ process' = None
    /\ ws_endpoint' = NoEndpoint
    /\ socat_proc' = None
    /\ scanned' = FALSE
    /\ UNCHANGED <<cfgVars, call, browser_pool, socat_processes, server_ready, endpoint_file,
                   exit_code, osVars, healthVars>>

----------------------------------------------------------------------------
\* The operating system: a started process may exit at any time, on its
\* own or because of a signal it was sent.
WorkerExit ==
    /\ mpc # "exited"
    /\ \E s \in Slots :
          /\ worker[s] \in {"running", "killed"}
          /\ worker' = [worker EXCEPT ![s] = "exited"]
    /\ UNCHANGED <<cfgVars, call, sharedVars, mpc, launchVars, cleanupVars, exit_code,
                   worker_term, forwarder, forwarder_term, stdout_unread, healthVars>>

\* The launch of slot s has read the worker's endpoint line and left the
\* read loop (line 326), or returned since.
EndpointRead(s) ==
    \/ s < i
    \/ s = i /\ mpc \in {"socat", "socat_append", "publish", "writefile", "return"}

\* A running worker writes one more line to its stdout (the pipe of line
\* 261) after its endpoint line.  launch_browser_instance has left its loop
\* over process.stdout and no other code reads the pipe, so the line stays
\* there; with the pipe full the worker's write blocks.
WorkerWrite ==
    /\ mpc # "exited"
    /\ \E s \in Slots :
          /\ worker[s] = "running"
          /\ EndpointRead(s)
          /\ stdout_unread[s] < PipeCapacity
          /\ stdout_unread' = [stdout_unread EXCEPT ![s] = @ + 1]
    /\ UNCHANGED <<cfgVars, call, sharedVars, mpc, launchVars, cleanupVars, exit_code,
                   worker, worker_term, forwarder, forwarder_term, healthVars>>

ForwarderExit ==
    /\ mpc # "exited"
    /\ \E s \in Slots :
          /\ forwarder[s] \in {"running", "killed"}
          /\ forwarder' = [forwarder EXCEPT ![s] = "exited"]
    /\ UNCHANGED <<cfgVars, call, sharedVars, mpc, launchVars, cleanupVars, exit_code,
                   worker, worker_term, forwarder_term, stdout_unread, healthVars>>

----------------------------------------------------------------------------
\* The health thread: HTTPServer (lines 160-164) handles one request at a
\* time with HealthHandler; it is a daemon thread and ends with the
\* interpreter.

\* (variant of ready_code that does not look at server_ready)
ready_code_pool_only(ready, pool) ==
    IF Cardinality(DOMAIN pool) > 0 THEN 200 ELSE 503

\* _handle_ready, lines 76-81: the status code
ready_code(ready, pool) ==
    IF ready /\ Cardinality(DOMAIN pool) > 0 THEN 200 ELSE 503

\* (variant of ready_available that counts the busy slots, as line 100 does)
ready_available_busy(pool) ==
    Cardinality({id \in DOMAIN pool : pool[id].status = "busy"})

\* _handle_ready, line 87: browsers_available
ready_available(pool) == NumReady(pool)

\* rewrite_endpoint, lines 126-142.  str.replace acts on the whole URL, so
\* on the path as well as on the host; (/.+)? takes a path only when
\* something follows the slash.
replace_text(t, h) ==
    CASE t = "localhost" -> h
      [] t = "127.0.0.1" -> h
      [] t = "/localhost" -> "/" \o h
      [] t = "/127.0.0.1" -> "/" \o h
      [] OTHER -> t

rewrite_endpoint(endpoint, advertise) ==
    IF endpoint # NoEndpoint /\ advertise # Localhost
    THEN IF advertise.port # 0
         THEN Endpoint(endpoint.scheme, advertise.host, advertise.port,
                       IF endpoint.path \in {"", "/"} THEN "" ELSE endpoint.path)
         ELSE Endpoint(endpoint.scheme, replace_text(endpoint.host, advertise.host),
                       endpoint.port, replace_text(endpoint.path, advertise.host))
    ELSE endpoint

\* _handle_browsers, lines 144-151: the list built from browser_pool.items()
browsers_listing(pool, advertise) ==
    [k \in 1 .. Cardinality(DOMAIN pool) |->
        LET id == PoolItem(pool, k) IN
        [ id       |-> id,
          endpoint |-> rewrite_endpoint(pool[id].endpoint, advertise),
          status   |-> pool[id].status ]]

\* _handle_browsers, line 155
primary_endpoint(pool, advertise) ==
    rewrite_endpoint(IF browser_id(0) \in DOMAIN pool
                     THEN pool[browser_id(0)].endpoint ELSE NoEndpoint,
                     advertise)

HealthRuns == mpc # "exited"

\* _handle_ready, lines 76-87, up to the creation of the iterator over
\* browser_pool.values().
HandleReady ==
    /\ HealthRuns /\ hpc = "idle"
    /\ LET code == ready_code(server_ready, browser_pool) IN
         resp' = [NoResponse EXCEPT !.kind = "ready", !.code = code,
                     !.status = IF code = 200 THEN "ready" ELSE "not_ready"]
    /\ it_used' = Cardinality(DOMAIN browser_pool)
    /\ hpc' = "ready_iter"
    /\ UNCHANGED <<cfgVars, call, sharedVars, mpc, launchVars, cleanupVars, exit_code,
                   osVars>>

\* _handle_ready, lines 87-90: the iteration went through, the body is
\* complete.
HandleReadyBody ==
    /\ HealthRuns /\ hpc = "ready_iter"
    /\ Cardinality(DOMAIN browser_pool) = it_used
    /\ resp' = [resp EXCEPT !.browsers_available = ready_available(browser_pool),
                            !.browsers_total = Cardinality(DOMAIN browser_pool)]
    /\ hpc' = "write"
    /\ it_used' = 0
    /\ UNCHANGED <<cfgVars, call, sharedVars, mpc, launchVars, cleanupVars, exit_code,
                   osVars>>

\* _handle_browsers, lines 122-145, up to the creation of the iterator over
\* browser_pool.items().
HandleBrowsers ==
    /\ HealthRuns /\ hpc = "idle"
    /\ resp' = [NoResponse EXCEPT !.kind = "browsers", !.code = 200]
    /\ it_used' = Cardinality(DOMAIN browser_pool)
    /\ hpc' = "browsers_iter"
    /\ UNCHANGED <<cfgVars, call, sharedVars, mpc, launchVars, cleanupVars, exit_code,
                   osVars>>

\* _handle_browsers, lines 145-156: the iteration went through, the body is
\* complete.
HandleBrowsersBody ==
    /\ HealthRuns /\ hpc = "browsers_iter"
    /\ Cardinality(DOMAIN browser_pool) = it_used
    /\ resp' = [resp EXCEPT !.browsers = browsers_listing(browser_pool, ADVERTISE_HOST),
                            !.primary_endpoint =
                                primary_endpoint(browser_pool, ADVERTISE_HOST)]
    /\ hpc' = "write"
    /\ it_used' = 0
    /\ UNCHANGED <<cfgVars, call, sharedVars, mpc, launchVars, cleanupVars, exit_code,
                   osVars>>

\* lines 87 / 145: the dict has grown since the iterator was created; its
\* next step raises RuntimeError (dictionary changed size during
\* iteration) and the request ends without a body.
IteratorInvalidated ==
    /\ HealthRuns /\ hpc \in {"ready_iter", "browsers_iter"}
    /\ Cardinality(DOMAIN browser_pool) # it_used
    /\ resp' = NoResponse
    /\ hpc' = "idle"
    /\ it_used' = 0
    /\ UNCHANGED <<cfgVars, call, sharedVars, mpc, launchVars, cleanupVars, exit_code,
                   osVars>>

\* lines 91 / 157: the body is written, the request is over.
WriteResponse ==
    /\ HealthRuns /\ hpc = "write"
    /\ resp' = NoResponse
    /\ hpc' = "idle"
    /\ it_used' = 0
    /\ UNCHANGED <<cfgVars, call, sharedVars, mpc, launchVars, cleanupVars, exit_code,
                   osVars>>

----------------------------------------------------------------------------
\* The endpoint arithmetic on its own: the endpoint launch_browser_instance
\* publishes for a slot (lines 282-311) and the endpoint the listing shows
\* for a published one (lines 126-142), each evaluated once on arguments
\* chosen at the start.

programVars == <<cfgVars, sharedVars, mpc, launchVars, cleanupVars, exit_code,
                 osVars, healthVars>>

\* lines 282-311: the 'endpoint' stored for slot call.slot when the worker
\* printed call.endpoint and start_socat_proxy returned a handle or None.
EvalPublish ==
    /\ call.fn = "pending"
    /\ call' = [call EXCEPT
                  !.fn = "publish",
                  !.result = pool_entry(call.endpoint,
                                        IF call.socat THEN call.slot ELSE None,
                                        call.slot, browser_id(call.slot)).endpoint]
    /\ UNCHANGED programVars

\* lines 126-142 and 148: rewrite_endpoint(info.get('endpoint'))
EvalRewrite ==
    /\ call.fn = "pending"
    /\ call' = [call EXCEPT
                  !.fn = "rewrite",
                  !.result = rewrite_endpoint(call.endpoint, ADVERTISE_HOST)]
    /\ UNCHANGED programVars

InitEndpoints ==
    /\ InitProgram
    /\ POOL_SIZE = MaxPool
    /\ call \in [ fn : {"pending"}, endpoint : EndpointInputs, slot : Slots,
                   socat : BOOLEAN, result : {NoEndpoint} ]

NextEndpoints == EvalPublish \/ EvalRewrite

SpecEndpoints == InitEndpoints /\ [][NextEndpoints]_vars

----------------------------------------------------------------------------
\* main() and launch_browser_instance()
NextMain ==
    \/ LaunchError \/ StartWorker \/ StartWorkerBrokenPipe \/ ReadPlainLine \/ ReadUriLine \/ ReadEOF
    \/ SocatFail \/ SocatStart \/ SocatAppend \/ Publish \/ WriteEndpointFile
    \/ LaunchReturn \/ NoneLaunched \/ BecomeReady \/ WaitDone

\* cleanup_browsers() and the end of main()
NextCleanup ==
    \/ CleanupTerminate \/ CleanupSkip \/ CleanupWaitExited \/ CleanupKill
    \/ CleanupNextLoop \/ CleanupFile \/ FinallyReturn

\* signal_handler()
NextSignal == Signal \/ HandlerExitInTry \/ HandlerExit

\* worker and forwarder processes
NextOS == WorkerExit \/ ForwarderExit

\* HealthHandler
NextHealth ==
    \/ HandleReady \/ HandleReadyBody \/ HandleBrowsers \/ HandleBrowsersBody
    \/ IteratorInvalidated \/ WriteResponse

Next == NextMain \/ NextCleanup \/ NextSignal \/ NextOS \/ NextHealth

\* The whole program.
Spec == Init /\ [][Next]_vars

\* The runs in which no termination signal is delivered: the pool is
\* launched and serves status requests until every worker has exited.
SpecStatus == Init /\ [][NextMain \/ NextCleanup \/ NextOS \/ NextHealth]_vars

\* The runs of the main thread and the processes alone, with signals
\* delivered at any point and any number of times; no status request is
\* in flight, so ADVERTISE_HOST, which only the listing reads, is left at
\* its default.
InitLifecycle == Init /\ ADVERTISE_HOST = Localhost

SpecLifecycle == InitLifecycle /\ [][NextMain \/ NextCleanup \/ NextSignal \/ NextOS]_vars

\* ENDPOINT_FILE is a fixed path under /tmp (line 26) and nothing in main()
\* removes it before the launch: a run that follows one which ended without
\* its cleanup (killed, or the machine went down) finds the file of that
\* run.  StaleEndpoint is such a content; no slot of this run publishes it.
StaleEndpoint == Endpoint("ws", "localhost", BROWSER_PORT, "/old")

\* The runs of SpecLifecycle, started with or without a file left behind.
InitRestart ==
    /\ \E file \in {NoEndpoint, StaleEndpoint} : InitFrom(file)
    /\ ADVERTISE_HOST = Localhost
    /\ call = NoCall

SpecRestart == InitRestart /\ [][NextMain \/ NextCleanup \/ NextSignal \/ NextOS]_vars

\* The steps of the main thread that wait for nothing a worker may never
\* do: they are calls that return (Popen, the dict store, the file write),
\* a read that returns because the stream is closed, or waits on processes
\* that have exited.  Reading a line (ReadPlainLine, ReadUriLine) is not
\* among them: line 272 blocks for as long as the worker neither writes nor
\* exits.
MainSteps ==
    \/ LaunchError \/ StartWorker \/ StartWorkerBrokenPipe \/ ReadEOF
    \/ SocatFail \/ SocatStart \/ SocatAppend \/ Publish \/ WriteEndpointFile
    \/ LaunchReturn \/ NoneLaunched \/ BecomeReady \/ WaitDone

\* The main thread is scheduled: a step of it that can be taken is taken.
\* Every step of cleanup_browsers returns within its timeout (lines 349,
\* 359).  Nothing is assumed of the worker and forwarder processes.
FairMain == WF_vars(MainSteps) /\ WF_vars(NextCleanup)

\* The runs of the main thread and the processes with no signal delivered
\* and no status request in flight, the workers' later output included.
SpecQuiet ==
    InitLifecycle /\ [][NextMain \/ NextCleanup \/ NextOS \/ WorkerWrite]_vars /\ FairMain

----------------------------------------------------------------------------
\* Properties

Launching == mpc \in {"launch", "discover", "socat", "socat_append", "publish",
                      "writefile", "return", "check"}

\* C1: a readiness request answers 200 exactly when, at the moment it is
\* answered, server_ready is set and at least one slot of the registry has
\* status ready; in every other state it answers 503.
ReadyAnswersByState ==
    [][ (hpc = "idle" /\ hpc' = "ready_iter") =>
            /\ resp'.code \in {200, 503}
            /\ (resp'.code = 200) <=> (server_ready /\ NumReady(browser_pool) >= 1)
      ]_vars

\* C1 witness: a readiness request has just been answered 200.
ReadyAnswered200 == hpc = "ready_iter" /\ resp.code = 200

\* C2 as stated: at any point of the run the readiness response is 503
\* exactly when it reports no ready slot.
ReadyIs503IffNoneReady ==
    (hpc = "write" /\ resp.kind = "ready") =>
        ((resp.code = 503) <=> (resp.browsers_available = 0))

\* C2 as amended: once the launch pass is complete (server_ready set) the
\* readiness request answers 503 exactly when no slot is ready, and a 200
\* response reports browsers_available >= 1; while slots are still being
\* launched it answers 503 whatever the number of ready slots.
ReadyAfterLaunchPass ==
    [][ /\ (hpc = "idle" /\ hpc' = "ready_iter" /\ server_ready) =>
               ((resp'.code = 503) <=> (NumReady(browser_pool) = 0))
        /\ (hpc = "idle" /\ hpc' = "ready_iter" /\ ~server_ready) =>
               resp'.code = 503
        /\ (hpc = "ready_iter" /\ hpc' = "write" /\ resp.code = 200) =>
               resp'.browsers_available >= 1
      ]_vars

\* C2 witness: a complete 200 response after the launch pass.
ReadyBody200 ==
    /\ hpc = "write" /\ resp.kind = "ready"
    /\ server_ready /\ resp.code = 200 /\ resp.browsers_available >= 1

\* C3: whatever the interleaving of launches and status requests, a slot
\* of the registry, and a slot of a listing served from it, has a
\* non-empty endpoint exactly when its status is ready.
SlotEndpointIffReady ==
    /\ \A id \in DOMAIN browser_pool :
          (browser_pool[id].endpoint # NoEndpoint) <=> (browser_pool[id].status = "ready")
    /\ resp.kind = "browsers" =>
          \A k \in 1 .. Len(resp.browsers) :
              (resp.browsers[k].endpoint # NoEndpoint) <=> (resp.browsers[k].status = "ready")

\* C3 witness: a listing with a slot in it is served while slots are still
\* being launched.
ListingDuringLaunch ==
    /\ hpc = "write" /\ resp.kind = "browsers" /\ Len(resp.browsers) >= 1
    /\ Launching /\ mpc # "check"

\* C4: during shutdown every forwarder is terminated before any worker is;
\* no worker has been sent terminate while a forwarder is still running.
ForwardersDownBeforeWorkers ==
    \A s \in Slots : \A t \in Slots :
        worker_term[s] # "never" => forwarder[t] # "running"

\* C5: when the manager has exited after a shutdown pass, no worker and no
\* forwarder that was started is still running.
NoProcessLeftRunning ==
    (mpc = "exited" /\ shutdown_requested) =>
        \A s \in Slots : worker[s] # "running" /\ forwarder[s] # "running"

\* C6: with no slot ready the manager never becomes ready, and when the
\* launch pass ends that way it exits with a non-zero code.
FailsFastWithoutReadySlot ==
    NumReady(browser_pool) = 0 =>
        /\ ~server_ready
        /\ mpc = "exited" => exit_code # 0

\* C7: a slot whose worker's output ended before any URI is recorded in the
\* registry with status failed and no endpoint.
StreamClosedSlotIsFailed ==
    (MainRuns /\ mpc = "return" /\ process # None /\ ws_endpoint = NoEndpoint) =>
        /\ browser_id(i) \in DOMAIN browser_pool
        /\ browser_pool[browser_id(i)].status = "failed"
        /\ browser_pool[browser_id(i)].endpoint = NoEndpoint

\* The slot being launched has been published after start_socat_proxy
\* returned None for it.
PublishedWithoutSocat ==
    /\ MainRuns /\ mpc \in {"writefile", "return"}
    /\ ws_endpoint # NoEndpoint /\ port_match(ws_endpoint)
    /\ socat_proc = None

\* C8: when the forwarder cannot be started for a slot, the slot is still
\* published with status ready, its endpoint is the endpoint the worker
\* printed, no forwarder is recorded for it, and the launch goes on.
SocatFallbackPublishesRaw ==
    PublishedWithoutSocat =>
        LET info == browser_pool[browser_id(i)] IN
        /\ browser_id(i) \in DOMAIN browser_pool
        /\ info.status = "ready"
        /\ info.endpoint = ws_endpoint
        /\ info.proxy_port = None
        /\ forwarder[i] = "none"
        /\ \A k \in 1 .. Len(socat_processes) : socat_processes[k] # i

\* C8 witness: the second slot is published that way while the first one
\* has its forwarder.
FallbackSlotPublished ==
    PublishedWithoutSocat /\ i = 1 /\ Len(socat_processes) = 1

\* C9: over all shutdown passes of a run no process handle is sent
\* terminate more than once.
NoHandleTerminatedTwice ==
    \A s \in Slots : worker_term[s] # "again" /\ forwarder_term[s] # "again"

\* C10: once the launch pass has succeeded the registry holds at most
\* POOL_SIZE entries, keyed by browser_0 .. browser_{POOL_SIZE-1}, each with
\* status ready or failed.
RegistryWithinPool ==
    server_ready =>
        /\ Cardinality(DOMAIN browser_pool) <= POOL_SIZE
        /\ DOMAIN browser_pool \subseteq {<<"browser_", k>> : k \in 0 .. (POOL_SIZE - 1)}
        /\ \A id \in DOMAIN browser_pool : browser_pool[id].status \in {"ready", "failed"}

\* C10 witness: a pool of at least two slots is ready with every slot in
\* the registry.
FullPoolReady ==
    server_ready /\ POOL_SIZE >= 2 /\ Cardinality(DOMAIN browser_pool) = POOL_SIZE

\* C11: the lifecycle of a slot is monotonic under launches, discoveries,
\* signals and shutdown passes: an entry written to the registry is never
\* replaced, removed or changed (its status never goes back), and a worker
\* process that has been started is never started again, whether it is still
\* running, was killed or has exited.
SlotLifecycleMonotonic ==
    [][ /\ \A id \in DOMAIN browser_pool :
              id \in DOMAIN browser_pool' /\ browser_pool'[id] = browser_pool[id]
        /\ \A s \in Slots :
              /\ worker[s] # "none" => worker'[s] # "none"
              /\ worker'[s] = "running" => worker[s] \in {"none", "running"}
              /\ (worker[s] = "none" /\ worker'[s] # "none") =>
                     browser_id(s) \notin DOMAIN browser_pool
      ]_vars

\* C11 witness: the worker of a published slot has exited and the pool goes
\* on with the next slot, whose worker is running.
FailedWorkerKeptWhilePoolRuns ==
    /\ browser_id(0) \in DOMAIN browser_pool /\ worker[0] = "exited"
    /\ worker[1] = "running" /\ mpc = "discover"

\* C12: a status request that has begun to iterate over the registry always
\* goes on to write its response; it never ends without one because the
\* registry changed under it.
RequestsSurviveInserts ==
    [][ (hpc \in {"ready_iter", "browsers_iter"}) => (hpc' # "idle") ]_vars

\* C13: the worker of a slot is started only after every earlier slot has been
\* attempted and its discovery has resolved: its entry is in the registry,
\* its stream is closed (the worker has exited) or its launch failed (no
\* worker).
LaunchStrictlySequential ==
    \A s \in Slots : worker[s] # "none" =>
        \A r \in Slots : r < s =>
            /\ r < i
            /\ \/ browser_id(r) \in DOMAIN browser_pool
               \/ worker[r] \in {"none", "exited"}

\* C13 witness: the second worker has just been started while the first
\* one, published, is still running.
SecondWorkerStarted ==
    /\ mpc = "discover" /\ i = 1 /\ worker[1] = "running"
    /\ worker[0] = "running" /\ browser_id(0) \in DOMAIN browser_pool

\* C14: the endpoint file comes into being only as browser_0's published
\* endpoint; once the manager has exited after a shutdown pass the file does
\* not exist; and from the moment shutdown began the file is never written
\* again.
EndpointFileRemovedOnShutdown ==
    /\ []((mpc = "exited" /\ shutdown_requested) => endpoint_file = NoEndpoint)
    /\ [][ /\ shutdown_requested => endpoint_file' \in {endpoint_file, NoEndpoint}
           /\ (endpoint_file = NoEndpoint /\ endpoint_file' # NoEndpoint) =>
                  /\ browser_id(0) \in DOMAIN browser_pool
                  /\ endpoint_file' = browser_pool[browser_id(0)].endpoint
         ]_vars

\* C14 witness: the manager has exited after a shutdown pass that followed a
\* complete launch pass in which browser_0 was published, so the file had
\* been written.
ExitedAfterFileWritten ==
    /\ mpc = "exited" /\ shutdown_requested /\ server_ready
    /\ browser_id(0) \in DOMAIN browser_pool /\ endpoint_file = NoEndpoint

\* C15: in the listing, for a published endpoint scheme://host:port/path and
\* an ADVERTISE_HOST other than localhost, a bare host H gives
\* scheme://H:port/path (port and path kept) and a host:port H:P gives
\* scheme://H:P/path (path kept).
ListingRewritesHostOnly ==
    ( /\ call.fn = "rewrite" /\ ADVERTISE_HOST # Localhost
      /\ call.endpoint.port # 0 /\ call.endpoint.path \notin {"", "/"} ) =>
        call.result =
            Endpoint(call.endpoint.scheme, ADVERTISE_HOST.host,
                     IF ADVERTISE_HOST.port = 0 THEN call.endpoint.port
                                                ELSE ADVERTISE_HOST.port,
                     call.endpoint.path)

\* C16: when the forwarder was started for slot i, the published endpoint
\* has port BROWSER_PORT + i and the scheme and the path of the endpoint the
\* worker printed.
ProxiedEndpointKeepsSchemeAndPath ==
    (call.fn = "publish" /\ call.socat /\ port_match(call.endpoint)) =>
        /\ call.result.port = BROWSER_PORT + call.slot
        /\ call.result.scheme = call.endpoint.scheme
        /\ call.result.path = call.endpoint.path

\* C17: when a shutdown pass has completed, no entry of the registry is
\* still recorded with status ready.
NoReadySlotAfterShutdown ==
    (cpc = "end" \/ (mpc = "exited" /\ shutdown_requested)) =>
        NumReady(browser_pool) = 0

\* C18: a slot that fails, whichever way, does not end the launch pass:
\* while slot k is being launched and later slots remain, the launch of the
\* next slot is eventually reached.
LaterSlotsAttempted ==
    \A k \in Slots :
        (Launching /\ i = k /\ k + 1 < POOL_SIZE) ~> (i > k)

\* C19: with no signal, once the manager is ready and every worker has
\* exited, the manager eventually exits with code 0; the shutdown pass is
\* entered only from the wait loop, which is never returned to, so it runs
\* once.
AllWorkersGoneThenCleanExit ==
    /\ ( /\ mpc = "wait"
         /\ \A k \in 1 .. Len(processes) : worker[processes[k]] = "exited" )
           ~> (mpc = "exited" /\ exit_code = 0)
    /\ [][ /\ (cpc = "idle" /\ cpc' # "idle") => (mpc = "wait" /\ mpc' = "finally")
           /\ (mpc = "finally") => (mpc' \in {"finally", "exited"})
           /\ (mpc = "finally" /\ mpc' = "exited") => (exit_code' = 0)
         ]_vars

\* C19 witness: the manager became ready, its workers exited and it has
\* exited with code 0 after the shutdown pass.
CleanExitAfterWorkersGone ==
    /\ mpc = "exited" /\ exit_code = 0 /\ server_ready /\ shutdown_requested
    /\ \A s \in Slots : worker[s] \in {"none", "exited"}

\* C20: the output a worker writes after its endpoint line is consumed, so
\* its stdout pipe never fills up and the worker is never blocked on it.
WorkerOutputDrained ==
    \A s \in Slots : stdout_unread[s] < PipeCapacity

\* browser_0 is in the registry with status ready and the file holds its
\* published endpoint.
FileIsPrimaryEndpoint ==
    /\ browser_id(0) \in DOMAIN browser_pool
    /\ browser_pool[browser_id(0)].status = "ready"
    /\ endpoint_file = browser_pool[browser_id(0)].endpoint

\* C21 as stated: in every reachable state, if the endpoint file exists then
\* browser_0 is in the registry with status ready and the file holds its
\* published endpoint.
FileExistsOnlyForPrimary ==
    endpoint_file # NoEndpoint => FileIsPrimaryEndpoint

\* C21 as amended: a file written in this run holds the published endpoint
\* of browser_0, which is in the registry with status ready; the file is
\* written at most once per run (only before shutdown began, and never over
\* a content written in this run) and never holds another slot's endpoint.
\* A file left by an earlier run stays as it is until that write or until
\* the shutdown pass removes it.
FileWrittenOnceForPrimary ==
    /\ [](endpoint_file \notin {NoEndpoint, StaleEndpoint} => FileIsPrimaryEndpoint)
    /\ [][ /\ (endpoint_file' # endpoint_file /\ endpoint_file' # NoEndpoint) =>
                  /\ endpoint_file \in {NoEndpoint, StaleEndpoint}
                  /\ ~shutdown_requested
                  /\ browser_id(0) \in DOMAIN browser_pool
                  /\ endpoint_file' = browser_pool[browser_id(0)].endpoint
           /\ (endpoint_file # NoEndpoint /\ endpoint_file' = NoEndpoint) =>
                  shutdown_requested
           /\ shutdown_requested => shutdown_requested'
         ]_vars

\* C21 witness: both slots are published and the file, written in this run,
\* holds browser_0's endpoint, which is not that of browser_1.
FileOverwrittenByPrimary ==
    /\ endpoint_file \notin {NoEndpoint, StaleEndpoint}
    /\ browser_id(1) \in DOMAIN browser_pool
    /\ browser_pool[browser_id(1)].endpoint # endpoint_file
====
